---- MODULE Spec2Model ----
(***************************************************************************)
(* Model of the UniFi controller client (src/unifi_mcp/client.py): one     *)
(* shared UnifiControllerClient object used by concurrent asyncio tasks.   *)
(* Every action is one run of a coroutine from one suspension point (an    *)
(* awaited network call) to the next, as the asyncio event loop runs it.   *)
(***************************************************************************)
EXTENDS Integers, Sequences, FiniteSets, TLC

\* ---- bounds ----
NumTasks == 2
MaxSessions == 2
MaxCalls == 2

Tasks == 1..NumTasks
\* Python None, for session and csrf_token
None == 0
\* csrfToken values a login's JWT can carry
Tokens == {1}
\* (method, endpoint, site_name, data, params) argument tuples: calls that
\* run in different tasks carry different ones, named by the task's number
Requests == Tasks
\* outcome of an awaited HTTP call: a status code, or Exc for a transport
\* exception or timeout raised by httpx
Exc == 0
Outcomes == {Exc, 200, 401, 500}
\* body of a 200 response: the {data, meta} envelope, JSON without a data
\* key, or a body response.json() fails to parse
Bodies == {"env", "plain", "bad"}
\* the TOKEN cookie: one the code takes no token from (absent, empty, of
\* fewer than two JWT parts, or with a payload that fails to decode), one
\* whose payload has no csrfToken (get() gives None), or one with a token
CookieAbsent == -1
Cookies == {CookieAbsent, None} \cup Tokens

VARIABLES
    session,           \* self.session: None or the id of an httpx.AsyncClient
    csrf_token,        \* self.csrf_token: None or a token
    is_authenticated,  \* self.is_authenticated
    is_udm_pro,        \* self.config.is_udm_pro, fixed at construction
    jar,               \* self.session.cookies: the TOKEN cookie of the session
    created,           \* number of httpx.AsyncClient objects constructed
    closes,            \* closes[s]: number of aclose() calls on session s
    net,               \* HTTP exchanges awaiting their response
    calls,             \* number of client calls started so far
    task,              \* per asyncio task: the call it runs and its locals
    last,              \* the call that returned in the step just taken, if any
    ev,                \* the HTTP response delivered in the step just taken, if any
    tool,              \* the call of the unified tool: its arguments, where its
                       \* handler stands, what it asked of the client, its result
    norm,              \* a MAC string and what normalize_mac made of it
    handler            \* a handler of the service layer run on its own: its
                       \* parameters and what it made of them

vars == <<session, csrf_token, is_authenticated, is_udm_pro, jar, created, closes,
          net, calls, task, last, ev, tool, norm, handler>>

\* the service layer's part of the state, which no method of the client touches
svc == <<tool, norm, handler>>

NoRes == [kind |-> "none", code |-> 0, body |-> "", req |-> 0]
Res(k, c, b, q) == [kind |-> k, code |-> c, body |-> b, req |-> q]
Raised == Res("raised", 0, "", 0)
ErrExc == Res("error", Exc, "", 0)

\* the locals of a call: op and pc say where the coroutine stands, ret which
\* caller awaits authenticate(), req and hdr are the arguments and the headers
\* dict; sent, got and auths record the HTTP requests it sent, the outcomes
\* it received and its authenticate() calls; the rest is what the caller
\* could observe on entry, whether the call closed a session or met a
\* missing one, and what it returned
Call(op, q, auth, sess) ==
    [op |-> op, pc |-> "run", ret |-> "none", req |-> q, hdr |-> None,
     sent |-> <<>>, got |-> <<>>, auths |-> <<>>,
     authAtEntry |-> auth, sessAtEntry |-> sess, closedHere |-> FALSE,
     noSess |-> FALSE, res |-> NoRes]

NewCall(op, q) == Call(op, q, is_authenticated, session)

IdleTask == [Call("none", 0, FALSE, None) EXCEPT !.pc = "idle"]

\* a delivered response: to which call, of which kind, with which outcome
\* and body; ok is what authenticate() returned on a login response
NoEv == [kind |-> "none", task |-> 0, out |-> Exc, body |-> "", ok |-> FALSE]
Ev(k, t, out, body, ok) == [kind |-> k, task |-> t, out |-> out, body |-> body, ok |-> ok]

\* an HTTP call handed to session s; httpx refuses to send on a client that
\* has been closed (dead), so such a call can only end in an exception
\* __init__, line 34: self.api_base
api_base == IF is_udm_pro THEN "/proxy/network/api" ELSE "/api"

\* authenticate(), lines 70-86: the login POST, its URL after
\* controller_url, the keys of login_data and how httpx is told to encode
\* them (the json= argument in both modes)
login_url == IF is_udm_pro THEN "/api/auth/login" ELSE api_base \o "/login"
login_data ==
    IF is_udm_pro THEN {"username", "password"}
    ELSE {"username", "password", "remember"}
NoPost == [url |-> "", enc |-> "", data |-> {}]
LoginPost == [url |-> login_url, enc |-> "json", data |-> login_data]

Msg(t, k, s, q, h) ==
    [task |-> t, kind |-> k, sess |-> s, req |-> q, hdr |-> h,
     dead |-> closes[s] > 0,
     post |-> IF k = "login" THEN LoginPost ELSE NoPost]

\* a task that runs no call starts one; tasks differ in nothing but their
\* number, so a new call takes the free task with the lowest one
Start(t) ==
    /\ task[t].pc = "idle"
    /\ \A u \in Tasks : u < t => task[u].pc # "idle"
    /\ calls < MaxCalls
    /\ calls' = calls + 1

\* the call of task t goes on with locals r
Continue(t, r) ==
    /\ task' = [task EXCEPT ![t] = r]
    /\ last' = IdleTask

\* the call of task t returns (or raises) res: last holds the finished
\* call in the state the caller resumes in, and only there
Return(t, r, res) ==
    /\ task' = [task EXCEPT ![t] = IdleTask]
    /\ last' = [r EXCEPT !.pc = "done", !.res = res]

CountOf(seq, x) == Cardinality({i \in 1..Len(seq) : seq[i] = x})

\* ---- service layer: data ----

\* bounds of the service layer: length of a MAC string, length of a list
\* the controller returns
MaxLen == 3
MaxList == 2

\* the characters MAC strings are written with: a letter in both cases, the
\* three separators, whitespace
Chars == {"a", "A", ":", "-", ".", " "}
MacStrings == UNION {[1..n -> Chars] : n \in 0..MaxLen}

\* Python None for the optional str parameters mac, name and note
NoMac == <<"None">>
NoText == <<"None">>

\* str.strip(): without leading and trailing whitespace
Strip(s) ==
    LET keep == {i \in 1..Len(s) : s[i] # " "} IN
    IF keep = {} THEN <<>>
    ELSE LET lo == CHOOSE i \in keep : \A j \in keep : i <= j
             hi == CHOOSE i \in keep : \A j \in keep : j <= i
         IN  SubSeq(s, lo, hi)

\* str.lower()
Lower(s) == [i \in 1..Len(s) |-> IF s[i] = "A" THEN "a" ELSE s[i]]

\* str.replace(old, new) for one-character old and new
Replace(s, old, new) == [i \in 1..Len(s) |-> IF s[i] = old THEN new ELSE s[i]]

\* normalize_mac with the strip() left out
normalize_mac_NoStrip(mac) == Replace(Replace(Lower(mac), "-", ":"), ".", ":")

\* BaseService.normalize_mac, base.py line 47
normalize_mac(mac) == Replace(Replace(Lower(Strip(mac)), "-", ":"), ".", ":")

\* the expression client.py builds the "mac" field of a command with, lines
\* 218, 226 and 234: mac.lower().replace("-", ":").replace(".", ":")
CmdMac(mac) == Replace(Replace(Lower(mac), "-", ":"), ".", ":")

\* UnifiAction, enums.py lines 18-55, by value
UnifiAction ==
    {"get_devices", "get_device_by_mac", "restart_device", "locate_device",
     "get_clients", "reconnect_client", "block_client", "unblock_client",
     "forget_client", "set_client_name", "set_client_note",
     "get_sites", "get_wlan_configs", "get_network_configs", "get_port_configs",
     "get_port_forwarding_rules", "get_firewall_rules", "get_firewall_groups",
     "get_static_routes",
     "get_controller_status", "get_events", "get_alarms", "get_dpi_stats",
     "get_rogue_aps", "start_spectrum_scan", "get_spectrum_scan_state",
     "authorize_guest", "get_speedtest_results", "get_ips_events",
     "get_user_info"}

DEVICE_ACTIONS ==
    {"get_devices", "get_device_by_mac", "restart_device", "locate_device"}

CLIENT_ACTIONS ==
    {"get_clients", "reconnect_client", "block_client", "unblock_client",
     "forget_client", "set_client_name", "set_client_note"}

NETWORK_ACTIONS ==
    {"get_sites", "get_wlan_configs", "get_network_configs", "get_port_configs",
     "get_port_forwarding_rules", "get_firewall_rules", "get_firewall_groups",
     "get_static_routes"}

\* MONITORING_ACTIONS without its last member
MONITORING_ACTIONS_Short ==
    {"get_controller_status", "get_events", "get_alarms", "get_dpi_stats",
     "get_rogue_aps", "start_spectrum_scan", "get_spectrum_scan_state",
     "authorize_guest", "get_speedtest_results"}

MONITORING_ACTIONS ==
    {"get_controller_status", "get_events", "get_alarms", "get_dpi_stats",
     "get_rogue_aps", "start_spectrum_scan", "get_spectrum_scan_state",
     "authorize_guest", "get_speedtest_results", "get_ips_events"}

AUTH_ACTIONS == {"get_user_info"}

\* MAC_REQUIRED_ACTIONS without authorize_guest
MAC_REQUIRED_ACTIONS_NoGuest ==
    {"get_device_by_mac", "restart_device", "locate_device", "reconnect_client",
     "block_client", "unblock_client", "forget_client", "set_client_name",
     "set_client_note", "start_spectrum_scan", "get_spectrum_scan_state"}

\* MAC_REQUIRED_ACTIONS, enums.py lines 105-118
MAC_REQUIRED_ACTIONS ==
    {"get_device_by_mac", "restart_device", "locate_device", "reconnect_client",
     "block_client", "unblock_client", "forget_client", "set_client_name",
     "set_client_note", "start_spectrum_scan", "get_spectrum_scan_state",
     "authorize_guest"}

\* an entry of a list the controller returns (a device, a user):
\* entry.get("mac", "") and, for a user, entry.get("_id") and
\* entry.get("user_id"), 0 standing for a missing or empty value
Entry(mac, id1, id2) == [mac |-> mac, id1 |-> id1, id2 |-> id2]
NoEntry == Entry(NoMac, 0, 0)

\* a Python value request() returns: a list, a dict (with or without an
\* "error" key, with meta.rc absent, "ok" or another code) or anything
\* else; NoVal where there is none
Val(t, err, rc, items) == [t |-> t, err |-> err, rc |-> rc, items |-> items]
NoVal == Val("none", FALSE, "absent", <<>>)
\* the {"error": ...} payload request() returns for a failure
ErrVal == Val("dict", TRUE, "absent", <<>>)
RCs == {"absent", "ok", "error"}

\* the JSON document of a 200 response: a value and, if it is a dict, whether
\* it has a "data" key and what that key holds
Doc(v, hasData, data) ==
    [t |-> v.t, err |-> v.err, rc |-> v.rc, items |-> v.items,
     hasData |-> hasData, data |-> data]
NoDoc == Doc(NoVal, FALSE, NoVal)

\* a request handed to request(): method, endpoint, the cmd discriminator
\* and MAC of its JSON body, the user id in its path
Req(method, endpoint, cmd, mac, id) ==
    [method |-> method, endpoint |-> endpoint, cmd |-> cmd, mac |-> mac, id |-> id]

\* a ToolResult, or the exception that leaves the call instead: error or
\* not, of which origin, whether the payload has success: true, the entry it
\* carries, the MAC and the action names its message gives, and whether
\* the message gives the site
Result(kind, why) ==
    [kind |-> kind, why |-> why, success |-> FALSE, entry |-> NoEntry, pos |-> 0,
     mac |-> NoMac, names |-> {}, site |-> FALSE]
NoResult == Result("none", "")

\* the tool call: no call yet
IdleTool ==
    [pc |-> "idle", action |-> "", mac |-> NoMac, text |-> NoText, limit |-> 0,
     route |-> "none", step |-> "none", sent |-> <<>>, doc |-> NoDoc,
     got |-> NoVal, target |-> NoEntry, result |-> NoResult]

\* no MAC string under normalization
NoNorm == [inp |-> <<>>, out |-> <<>>, n |-> 0]

\* no handler is run on its own
NoRun == [pc |-> "none"]

\* an optional argument of the tool: None, or a bool, a string or an int
NoArg == [given |-> FALSE, b |-> FALSE, s |-> "", n |-> 0]
BoolArg(x) == [given |-> TRUE, b |-> x, s |-> "", n |-> 0]
StrArg(x) == [given |-> TRUE, b |-> FALSE, s |-> x, n |-> 0]
IntArg(x) == [given |-> TRUE, b |-> FALSE, s |-> "", n |-> x]

\* Python's truth value of an argument; `x or y`; `x if x is not None else y`
Truthy(x) == x.given /\ (x.b \/ x.s # "" \/ x.n # 0)
Or(x, y) == IF Truthy(x) THEN x ELSE y
IfGiven(x, y) == IF x.given THEN x ELSE y
Min(x, y) == IF x <= y THEN x ELSE y

\* __init__(), lines 28-34: the client as constructed
Fresh ==
    /\ session = None
    /\ csrf_token = None
    /\ is_authenticated = FALSE
    /\ jar = CookieAbsent
    /\ created = 0

\* the client as UniFiMCPServer.initialize() hands it to the tools: its
\* connect() has returned, the login accepted or not; an accepted login in
\* UDM Pro mode left a TOKEN cookie or none, and the token read from it
Initialized ==
    /\ session = 1
    /\ created = 1
    /\ is_authenticated \in BOOLEAN
    /\ jar \in IF is_udm_pro /\ is_authenticated THEN Cookies ELSE {CookieAbsent}
    /\ csrf_token = IF jar >= None THEN jar ELSE None

Init ==
    /\ is_udm_pro \in BOOLEAN
    /\ Fresh \/ Initialized
    /\ closes = [s \in 1..MaxSessions |-> 0]
    /\ net = {}
    /\ calls = 0
    /\ task = [t \in Tasks |-> IdleTask]
    /\ last = IdleTask
    /\ ev = NoEv
    /\ tool = IdleTool
    /\ norm = NoNorm
    /\ handler = NoRun


\* ---- authenticate() ----

\* authenticate(), lines 65-86: raise RuntimeError without a session, else
\* POST the login and suspend.  ret names the caller: "connect", "ensure"
\* (ensure_authenticated in _make_request), "reauth" (the 401 branch) or
\* "direct".  The RuntimeError is caught only in the 401 branch, which sits
\* inside _make_request's try block.
Authenticate(t, r, ret, n, s) ==
    LET r1 == [r EXCEPT !.auths = Append(@, ret), !.ret = ret] IN
    IF s = None
    THEN /\ net' = n
         /\ Return(t, [r1 EXCEPT !.noSess = TRUE],
                   IF ret = "reauth" THEN ErrExc ELSE Raised)
    ELSE /\ net' = n \cup {Msg(t, "login", s, 0, None)}
         /\ Continue(t, [r1 EXCEPT !.pc = "login_wait"])

\* LoginResult with is_authenticated set inside the `if token_cookie:` block
LoginResult_TokenOnly(out, cookie) ==
    IF out # 200
    THEN [ok |-> FALSE, csrf |-> csrf_token, auth |-> is_authenticated]
    ELSE IF is_udm_pro /\ session = None
    THEN [ok |-> FALSE, csrf |-> csrf_token, auth |-> is_authenticated]
    ELSE [ok |-> TRUE,
          csrf |-> IF is_udm_pro /\ cookie >= None THEN cookie ELSE csrf_token,
          auth |-> IF is_udm_pro /\ cookie >= None THEN TRUE ELSE is_authenticated]

\* LoginResult with a rejected login clearing is_authenticated
LoginResult_ResetOnFailure(out, cookie) ==
    IF out # 200
    THEN [ok |-> FALSE, csrf |-> csrf_token, auth |-> FALSE]
    ELSE IF is_udm_pro /\ session = None
    THEN [ok |-> FALSE, csrf |-> csrf_token, auth |-> is_authenticated]
    ELSE [ok |-> TRUE,
          csrf |-> IF is_udm_pro /\ cookie >= None THEN cookie ELSE csrf_token,
          auth |-> TRUE]

\* LoginResult with a token taken in legacy mode as well
LoginResult_LegacyToken(out, cookie) ==
    IF out # 200
    THEN [ok |-> FALSE, csrf |-> csrf_token, auth |-> is_authenticated]
    ELSE IF is_udm_pro /\ session = None
    THEN [ok |-> FALSE, csrf |-> csrf_token, auth |-> is_authenticated]
    ELSE [ok |-> TRUE,
          csrf |-> IF ~is_udm_pro THEN CHOOSE k \in Tokens : TRUE
                   ELSE IF cookie >= None THEN cookie ELSE csrf_token,
          auth |-> TRUE]

\* authenticate(), lines 87-117: what the login response does to the client.
\* A non-200 status or an exception returns False and assigns nothing; in
\* UDM Pro mode self.session.cookies raises AttributeError when the session
\* is gone, which the outer except turns into False.
LoginResult(out, cookie) ==
    IF out # 200
    THEN [ok |-> FALSE, csrf |-> csrf_token, auth |-> is_authenticated]
    ELSE IF is_udm_pro /\ session = None
    THEN [ok |-> FALSE, csrf |-> csrf_token, auth |-> is_authenticated]
    ELSE [ok |-> TRUE,
          csrf |-> IF is_udm_pro /\ cookie >= None THEN cookie ELSE csrf_token,
          auth |-> TRUE]

\* httpx stores the cookies of a response in the jar of the client that sent
\* the request: setc is the TOKEN cookie the login response sets
\* (CookieAbsent: none), s the session the login was posted on.  Only UDM
\* Pro mode reads the jar (line 94).
StoreCookie(s, out, setc) ==
    IF is_udm_pro /\ s = session /\ out # Exc /\ setc # CookieAbsent
    THEN setc ELSE jar

\* _make_request(), lines 135-164: session check, headers, first request
SendRequest(t, r, n, csrf) ==
    IF session = None
    THEN /\ net' = n
         /\ Return(t, [r EXCEPT !.noSess = TRUE], Raised)
    ELSE LET h == IF is_udm_pro /\ csrf # None THEN csrf ELSE None IN
         /\ net' = n \cup {Msg(t, "request", session, r.req, h)}
         /\ Continue(t, [r EXCEPT !.pc = "req_wait", !.hdr = h,
                                  !.sent = Append(@, [req |-> r.req, hdr |-> h])])

\* _make_request(), lines 171-178: the retry, with the headers built before
\* the first request; without a session the attribute access raises and the
\* except on line 198 returns the error payload
SendRetry(t, r, n) ==
    IF session = None
    THEN /\ net' = n
         /\ Return(t, [r EXCEPT !.noSess = TRUE], ErrExc)
    ELSE /\ net' = n \cup {Msg(t, "retry", session, r.req, r.hdr)}
         /\ Continue(t, [r EXCEPT !.pc = "retry_wait",
                                  !.sent = Append(@, [req |-> r.req, hdr |-> r.hdr])])

\* AfterAuthenticate with _make_request giving up when ensure_authenticated's
\* login failed
AfterAuthenticate_AbortOnFail(t, r, n, ok, csrf) ==
    CASE r.ret = "connect" ->
            /\ net' = n
            /\ Return(t, r, Res("returned", 0, "", 0))
      [] r.ret = "direct" ->
            /\ net' = n
            /\ Return(t, r, Res(IF ok THEN "true" ELSE "false", 0, "", 0))
      [] r.ret = "ensure" ->
            IF ok THEN SendRequest(t, r, n, csrf)
            ELSE /\ net' = n
                 /\ Return(t, r, ErrExc)
      [] r.ret = "reauth" -> SendRetry(t, r, n)

\* the caller of authenticate() resumes with its return value
AfterAuthenticate(t, r, n, ok, csrf) ==
    CASE r.ret = "connect" ->
            /\ net' = n
            /\ Return(t, r, Res("returned", 0, "", 0))
      [] r.ret = "direct" ->
            /\ net' = n
            /\ Return(t, r, Res(IF ok THEN "true" ELSE "false", 0, "", 0))
      [] r.ret = "ensure" -> SendRequest(t, r, n, csrf)
      [] r.ret = "reauth" -> SendRetry(t, r, n)

\* the login POST of task t completes with outcome out
LoginResponse(t, out, setc) ==
    \E m \in net :
        /\ m.task = t /\ m.kind = "login"
        /\ task[t].pc = "login_wait"
        /\ m.dead => out = Exc
        /\ UNCHANGED <<session, is_udm_pro, created, closes, calls>>
        /\ jar' = StoreCookie(m.sess, out, setc)
        /\ LET lr == LoginResult(out, jar') IN
           /\ csrf_token' = lr.csrf
           /\ is_authenticated' = lr.auth
           /\ ev' = Ev("login", t, out, "", lr.ok)
           /\ UNCHANGED svc
           /\ AfterAuthenticate(t, task[t], net \ {m}, lr.ok, lr.csrf)

\* ---- connect(), disconnect(), authenticate() called directly ----

\* Connect with the session created on every call, open session or not
Connect_AlwaysCreate(t) ==
    /\ Start(t)
    /\ created < MaxSessions
    /\ UNCHANGED <<csrf_token, is_authenticated, is_udm_pro, closes>>
    /\ ev' = NoEv
    /\ UNCHANGED svc
    /\ session' = created + 1
    /\ jar' = CookieAbsent
    /\ created' = created + 1
    /\ Authenticate(t, NewCall("connect", 0), "connect", net, created + 1)

\* connect(), lines 47-53
Connect(t) ==
    /\ Start(t)
    /\ session = None => created < MaxSessions
    /\ UNCHANGED <<csrf_token, is_authenticated, is_udm_pro, closes>>
    /\ ev' = NoEv
    /\ UNCHANGED svc
    /\ LET s == IF session = None THEN created + 1 ELSE session IN
       /\ session' = s
       /\ jar' = IF session = None THEN CookieAbsent ELSE jar
       /\ created' = IF session = None THEN created + 1 ELSE created
       /\ Authenticate(t, NewCall("connect", 0), "connect", net, s)

\* disconnect(), lines 57-58: with a session, aclose() is awaited; without
\* one the call runs lines 60-61 and returns at once
Disconnect(t) ==
    /\ Start(t)
    /\ UNCHANGED <<is_udm_pro, jar, created, net>>
    /\ ev' = NoEv
    /\ UNCHANGED svc
    /\ IF session # None
       THEN /\ closes' = [closes EXCEPT ![session] = @ + 1]
            /\ UNCHANGED <<session, csrf_token, is_authenticated>>
            /\ Continue(t, [NewCall("disconnect", 0) EXCEPT
                               !.pc = "close_wait", !.closedHere = TRUE])
       ELSE /\ is_authenticated' = FALSE
            /\ csrf_token' = None
            /\ UNCHANGED <<session, closes>>
            /\ Return(t, NewCall("disconnect", 0), Res("returned", 0, "", 0))

\* DisconnectDone without the reset of csrf_token
DisconnectDone_KeepToken(t) ==
    /\ task[t].pc = "close_wait"
    /\ session' = None
    /\ is_authenticated' = FALSE
    /\ UNCHANGED <<csrf_token, is_udm_pro, jar, created, closes, net, calls>>
    /\ ev' = NoEv
    /\ UNCHANGED svc
    /\ Return(t, task[t], Res("returned", 0, "", 0))

\* disconnect(), lines 59-61, after aclose() returned
DisconnectDone(t) ==
    /\ task[t].pc = "close_wait"
    /\ session' = None
    /\ is_authenticated' = FALSE
    /\ csrf_token' = None
    /\ UNCHANGED <<is_udm_pro, jar, created, closes, net, calls>>
    /\ ev' = NoEv
    /\ UNCHANGED svc
    /\ Return(t, task[t], Res("returned", 0, "", 0))

\* authenticate() called by a user of the client
CallAuthenticate(t) ==
    /\ Start(t)
    /\ UNCHANGED <<session, csrf_token, is_authenticated, is_udm_pro, jar, created, closes>>
    /\ ev' = NoEv
    /\ UNCHANGED svc
    /\ Authenticate(t, NewCall("authenticate", 0), "direct", net, session)

\* ---- request(): _make_request() ----

\* ensure_authenticated(), lines 119-122
EnsureAuthenticated(t, r, n) ==
    IF ~is_authenticated
    THEN Authenticate(t, r, "ensure", n, session)
    ELSE SendRequest(t, r, n, csrf_token)

\* _make_request() is called with argument tuple q; it runs up to its first
\* suspension
CallRequest(t, q) ==
    /\ Start(t)
    /\ UNCHANGED <<session, csrf_token, is_authenticated, is_udm_pro, jar, created, closes>>
    /\ ev' = NoEv
    /\ UNCHANGED svc
    /\ EnsureAuthenticated(t, NewCall("request", q), net)

\* lines 184-196 (and 198-200 when json() raises): the value returned for a
\* 200 response to the request with arguments q
ParseBody(body, q) ==
    IF body = "bad" THEN ErrExc ELSE Res("data", 200, body, q)

\* FirstResponse with a 401 branch that retries at once, without clearing
\* is_authenticated and without calling authenticate()
FirstResponse_NoReauth(t, r, n, out, body) ==
    CASE out = Exc ->
            /\ net' = n
            /\ UNCHANGED is_authenticated
            /\ Return(t, r, ErrExc)
      [] out = 401 ->
            /\ UNCHANGED is_authenticated
            /\ SendRetry(t, r, n)
      [] out = 200 ->
            /\ net' = n
            /\ UNCHANGED is_authenticated
            /\ Return(t, r, ParseBody(body, r.req))
      [] OTHER ->
            /\ net' = n
            /\ UNCHANGED is_authenticated
            /\ Return(t, r, Res("error", out, "", 0))

\* FirstResponse with a 401 branch that starts authenticate() without
\* awaiting it and retries at once
FirstResponse_NoAwait(t, r, n, out, body) ==
    CASE out = Exc ->
            /\ net' = n
            /\ UNCHANGED is_authenticated
            /\ Return(t, r, ErrExc)
      [] out = 401 ->
            /\ is_authenticated' = FALSE
            /\ IF session = None
               THEN /\ net' = n
                    /\ Return(t, [r EXCEPT !.noSess = TRUE], ErrExc)
               ELSE /\ net' = n \cup {Msg(t, "login", session, 0, None),
                                       Msg(t, "retry", session, r.req, r.hdr)}
                    /\ Continue(t, [r EXCEPT !.pc = "retry_wait",
                                             !.auths = Append(@, "reauth"),
                                             !.sent = Append(@, [req |-> r.req, hdr |-> r.hdr])])
      [] out = 200 ->
            /\ net' = n
            /\ UNCHANGED is_authenticated
            /\ Return(t, r, ParseBody(body, r.req))
      [] OTHER ->
            /\ net' = n
            /\ UNCHANGED is_authenticated
            /\ Return(t, r, Res("error", out, "", 0))

\* FirstResponse with every non-200 status, not only 401, taking the
\* re-authenticate-and-retry branch
FirstResponse_RetryAll(t, r, n, out, body) ==
    CASE out = Exc ->
            /\ net' = n
            /\ UNCHANGED is_authenticated
            /\ Return(t, r, ErrExc)
      [] out = 200 ->
            /\ net' = n
            /\ UNCHANGED is_authenticated
            /\ Return(t, r, ParseBody(body, r.req))
      [] OTHER ->
            /\ is_authenticated' = FALSE
            /\ Authenticate(t, r, "reauth", n, session)

\* FirstResponse with every failing status, not only 401, clearing
\* is_authenticated
FirstResponse_ClearOnError(t, r, n, out, body) ==
    CASE out = Exc ->
            /\ net' = n
            /\ UNCHANGED is_authenticated
            /\ Return(t, r, ErrExc)
      [] out = 401 ->
            /\ is_authenticated' = FALSE
            /\ Authenticate(t, r, "reauth", n, session)
      [] out = 200 ->
            /\ net' = n
            /\ UNCHANGED is_authenticated
            /\ Return(t, r, ParseBody(body, r.req))
      [] OTHER ->
            /\ net' = n
            /\ is_authenticated' = FALSE
            /\ Return(t, r, Res("error", out, "", 0))

\* lines 166-190 and 198-200: the first response
FirstResponse(t, r, n, out, body) ==
    CASE out = Exc ->
            /\ net' = n
            /\ UNCHANGED is_authenticated
            /\ Return(t, r, ErrExc)
      [] out = 401 ->
            /\ is_authenticated' = FALSE
            /\ Authenticate(t, r, "reauth", n, session)
      [] out = 200 ->
            /\ net' = n
            /\ UNCHANGED is_authenticated
            /\ Return(t, r, ParseBody(body, r.req))
      [] OTHER ->
            /\ net' = n
            /\ UNCHANGED is_authenticated
            /\ Return(t, r, Res("error", out, "", 0))

\* SecondResponse with a 401 on the retry answered by another
\* re-authentication and retry
SecondResponse_RetryAgain(t, r, n, out, body) ==
    IF out = 401
    THEN Authenticate(t, r, "reauth", n, session)
    ELSE /\ net' = n
         /\ Return(t, r, CASE out = Exc -> ErrExc
                           [] out = 200 -> ParseBody(body, r.req)
                           [] OTHER -> Res("error", out, "", 0))

\* lines 180-184 and 198-200: the response to the retry
SecondResponse(t, r, n, out, body) ==
    /\ net' = n
    /\ Return(t, r, CASE out = Exc -> ErrExc
                      [] out = 200 -> ParseBody(body, r.req)
                      [] OTHER -> Res("error", out, "", 0))

\* the first HTTP request of task t completes
RequestResponse(t, out, body) ==
    \E m \in net :
        /\ m.task = t /\ m.kind = "request"
        /\ task[t].pc = "req_wait"
        /\ m.dead => out = Exc
        /\ UNCHANGED <<session, csrf_token, is_udm_pro, jar, created, closes, calls>>
        /\ ev' = Ev("request", t, out, body, FALSE)
        /\ UNCHANGED svc
        /\ FirstResponse(t, [task[t] EXCEPT !.got = Append(@, out)],
                         net \ {m}, out, body)

\* RetryResponse with the session dropped when the retry fails
RetryResponse_DropOnFail(t, out, body) ==
    \E m \in net :
        /\ m.task = t /\ m.kind = "retry"
        /\ task[t].pc = "retry_wait"
        /\ m.dead => out = Exc
        /\ session' = IF out = 200 THEN session ELSE None
        /\ UNCHANGED <<csrf_token, is_authenticated, is_udm_pro, jar, created, closes, calls>>
        /\ ev' = Ev("retry", t, out, body, FALSE)
        /\ UNCHANGED svc
        /\ SecondResponse(t, [task[t] EXCEPT !.got = Append(@, out)],
                          net \ {m}, out, body)

\* the retried HTTP request of task t completes
RetryResponse(t, out, body) ==
    \E m \in net :
        /\ m.task = t /\ m.kind = "retry"
        /\ task[t].pc = "retry_wait"
        /\ m.dead => out = Exc
        /\ UNCHANGED <<session, csrf_token, is_authenticated, is_udm_pro, jar, created, closes, calls>>
        /\ ev' = Ev("retry", t, out, body, FALSE)
        /\ UNCHANGED svc
        /\ SecondResponse(t, [task[t] EXCEPT !.got = Append(@, out)],
                          net \ {m}, out, body)

\* what the controller or the transport can answer; body and cookie matter
\* only where the code reads them
Answers == {a \in [out : Outcomes, body : Bodies, cookie : Cookies] :
              /\ a.out # 200 => a.body = "env" /\ a.cookie = CookieAbsent}

Next ==
    \E t \in Tasks :
        \/ Connect(t)
        \/ Disconnect(t)
        \/ DisconnectDone(t)
        \/ CallAuthenticate(t)
        \/ \E q \in Requests : q = t /\ CallRequest(t, q)
        \/ \E a \in Answers : a.body = "env" /\ LoginResponse(t, a.out, a.cookie)
        \/ \E a \in Answers : a.cookie = CookieAbsent /\ RequestResponse(t, a.out, a.body)
        \/ \E a \in Answers : a.cookie = CookieAbsent /\ RetryResponse(t, a.out, a.body)

Spec == Init /\ [][Next]_vars

\* every awaited HTTP call returns or times out: the response to a call
\* in flight is delivered eventually
Responds(t) ==
    \/ \E a \in Answers : a.body = "env" /\ LoginResponse(t, a.out, a.cookie)
    \/ \E a \in Answers : a.cookie = CookieAbsent /\ RequestResponse(t, a.out, a.body)
    \/ \E a \in Answers : a.cookie = CookieAbsent /\ RetryResponse(t, a.out, a.body)

\* the tasks that run calls where termination is checked: a request()
\* beside another request() or a disconnect()
LiveTasks == {1, 2}

\* request() calls, beside disconnect() calls that take their session away
NextLive ==
    \E t \in LiveTasks :
        \/ Disconnect(t)
        \/ DisconnectDone(t)
        \/ \E q \in Requests : q = t /\ CallRequest(t, q)
        \/ \E a \in Answers : a.body = "env" /\ LoginResponse(t, a.out, a.cookie)
        \/ \E a \in Answers : a.cookie = CookieAbsent /\ RequestResponse(t, a.out, a.body)
        \/ \E a \in Answers : a.cookie = CookieAbsent /\ RetryResponse(t, a.out, a.body)

SpecLive == Init /\ [][NextLive]_vars /\ \A t \in LiveTasks : WF_vars(Responds(t))

\* ---- racing request() calls ----

\* a connected client that is not authenticated: the login of connect() was
\* rejected, or a 401 cleared the flag and the login that followed failed
InitRace ==
    /\ is_udm_pro \in BOOLEAN
    /\ session = 1
    /\ created = 1
    /\ is_authenticated = FALSE
    /\ jar \in IF is_udm_pro THEN Cookies ELSE {CookieAbsent}
    /\ csrf_token = IF jar >= None THEN jar ELSE None
    /\ closes = [s \in 1..MaxSessions |-> 0]
    /\ net = {}
    /\ calls = 0
    /\ task = [t \in Tasks |-> IdleTask]
    /\ last = IdleTask
    /\ ev = NoEv
    /\ tool = IdleTool
    /\ norm = NoNorm
    /\ handler = NoRun

\* only request() is called, and the controller accepts every login
NextRace ==
    \E t \in Tasks :
        \/ \E q \in Requests : q = t /\ CallRequest(t, q)
        \/ \E c \in Cookies : LoginResponse(t, 200, c)
        \/ \E a \in Answers : a.cookie = CookieAbsent /\ RequestResponse(t, a.out, a.body)
        \/ \E a \in Answers : a.cookie = CookieAbsent /\ RetryResponse(t, a.out, a.body)

SpecRace == InitRace /\ [][NextRace]_vars

\* ---- service layer: the unified tool ----

\* limit = None
NoLimit == -1

\* what a caller passes: as action one of the values or a string that is
\* none (the name of a member, a word); as mac nothing, the empty string, or
\* a MAC in upper case with dashes or with leading whitespace; name or note
\* (set_client_name, set_client_note), limit (get_events)
ActionInputs == UnifiAction \cup {"GET_DEVICES", "reboot"}
MacInputs == {NoMac, <<>>, <<"A", "-", "a">>, <<" ", "a">>}
TextInputs == {NoText, <<>>, <<"a">>}
LimitInputs == {NoLimit, 0, 1}
ToolInputs ==
    {i \in [action : ActionInputs, mac : MacInputs, text : TextInputs,
            limit : LimitInputs] :
        /\ i.text # NoText => i.action \in {"set_client_name", "set_client_note"}
        /\ i.limit # NoLimit => i.action = "get_events"}

\* what the controller lists: devices and users, by MAC and identifiers
DeviceEntries == {Entry(m, 0, 0) : m \in {<<"a", ":", "A">>, <<"a">>, <<>>}}
UserEntries == {Entry(m, i, j) : m \in {<<"a", ":", "A">>, <<"a">>},
                                 i \in {0, 1}, j \in {0, 2}}
Lists(E) == UNION {[1..n -> E] : n \in 0..MaxList}
ListVals(E) == {Val("list", FALSE, "absent", l) : l \in Lists(E)}
DictVals == {Val("dict", e, r, <<>>) : e \in BOOLEAN, r \in RCs}
OtherVal == Val("other", FALSE, "absent", <<>>)

\* the JSON documents of a 200 response: the {data, meta} envelope around
\* one of the payloads, with meta.rc one of rcs, or a document without a
\* data key: a payload as it is, or a dict
Docs(payloads, rcs) ==
    {Doc(Val("dict", FALSE, r, <<>>), TRUE, d) : r \in rcs, d \in payloads}
    \cup {Doc(v, FALSE, NoVal) : v \in payloads \cup DictVals}

\* the documents the controller answers the awaited request of a step with
DocsFor(step) ==
    CASE step \in {"listing", "by_mac"} ->
            Docs(ListVals(DeviceEntries) \cup {OtherVal}, {"ok"})
      [] step = "users" ->
            Docs(ListVals(UserEntries) \cup {OtherVal}, {"ok"})
      [] step \in {"cmd", "write"} ->
            Docs({Val("list", FALSE, "absent", <<>>), OtherVal}, RCs)
      [] OTHER -> {NoDoc}

\* what ParseBody calls the document
Shape(doc) == IF doc.t = "dict" /\ doc.hasData THEN "env" ELSE "plain"

\* _make_request(), lines 193-196
Unwrap(doc) ==
    IF doc.t = "dict" /\ doc.hasData THEN doc.data
    ELSE Val(doc.t, doc.err, doc.rc, doc.items)

\* UnifiParams(...), params.py lines 98-104 and 122-138: the requirement
\* whose ValueError fails the construction, "" when it succeeds
ValidationError(a, m, x, l) ==
    IF l # NoLimit /\ l <= 0 THEN "limit"
    ELSE IF a \in MAC_REQUIRED_ACTIONS /\ m \in {NoMac, <<>>} THEN "mac"
    ELSE IF a = "set_client_name" /\ x = NoText THEN "name"
    ELSE IF a = "set_client_note" /\ x = NoText THEN "note"
    ELSE ""

\* UnifiService.execute_action, lines 62-75: the membership chain
Route(a) ==
    IF a \in DEVICE_ACTIONS THEN "device"
    ELSE IF a \in CLIENT_ACTIONS THEN "client"
    ELSE IF a \in NETWORK_ACTIONS THEN "network"
    ELSE IF a \in MONITORING_ACTIONS THEN "monitoring"
    ELSE IF a \in AUTH_ACTIONS THEN "auth"
    ELSE "unknown"

\* the handler the service's action_map gives, by the request it awaits first
FirstStep(a) ==
    CASE a \in {"get_devices", "get_clients"} -> "listing"
      [] a = "get_device_by_mac" -> "by_mac"
      [] a \in {"restart_device", "locate_device", "reconnect_client",
                "block_client", "unblock_client", "forget_client"} -> "cmd"
      [] a \in {"set_client_name", "set_client_note"} -> "users"
      [] OTHER -> "read"

\* the request that handler makes first; restart_device, locate_device and
\* reconnect_client go through the client's methods of these names
FirstRequest(a, m) ==
    CASE a \in {"get_devices", "get_device_by_mac"} ->
            Req("GET", "/stat/device", "", NoMac, 0)
      [] a = "get_clients" -> Req("GET", "/stat/sta", "", NoMac, 0)
      [] a = "restart_device" -> Req("POST", "/cmd/devmgr", "restart", CmdMac(m), 0)
      [] a = "locate_device" -> Req("POST", "/cmd/devmgr", "set-locate", CmdMac(m), 0)
      [] a = "reconnect_client" -> Req("POST", "/cmd/stamgr", "kick-sta", CmdMac(m), 0)
      [] a = "block_client" -> Req("POST", "/cmd/stamgr", "block-sta", normalize_mac(m), 0)
      [] a = "unblock_client" -> Req("POST", "/cmd/stamgr", "unblock-sta", normalize_mac(m), 0)
      [] a = "forget_client" -> Req("POST", "/cmd/stamgr", "forget-sta", normalize_mac(m), 0)
      [] a \in {"set_client_name", "set_client_note"} ->
            Req("GET", "/list/user", "", NoMac, 0)
      [] OTHER -> Req("", a, "", NoMac, 0)

\* BaseService.validate_response, base.py lines 110-121: "" if valid
validate_response(v) ==
    IF v.t # "dict" THEN ""
    ELSE IF v.err THEN "request"
    ELSE IF v.rc # "absent" /\ v.rc # "ok" THEN "controller"
    ELSE ""

\* BaseService.check_list_response, base.py lines 134-142: "" if a list
check_list_response(v) ==
    IF v.t = "dict" /\ v.err THEN "request"
    ELSE IF v.t # "list" THEN "format"
    ELSE ""

\* the scan of a list for the normalized MAC: the position of the first
\* entry whose normalized MAC is the same, 0 if there is none
FirstMatch(items, mac) ==
    LET hits == {i \in 1..Len(items) : normalize_mac(items[i].mac) = mac} IN
    IF hits = {} THEN 0 ELSE CHOOSE i \in hits : \A j \in hits : i <= j

\* u.get("_id") or u.get("user_id")
ClientId(u) == IF u.id1 # 0 THEN u.id1 ELSE u.id2

Ok(success) == [Result("ok", "") EXCEPT !.success = success]
Err(why) == Result("error", why)
\* a handler's `except Exception`: the exception that request() raised
\* becomes an error result
HandlerCatch == Err("exception")

\* ToolCatch that lets the exception through
ToolCatch_Propagate(r) == r

\* unifi(), server.py lines 217-222: an exception raised anywhere in the
\* body becomes the result {error: str(e)}
ToolCatch(r) == IF r.kind = "raised" THEN [r EXCEPT !.kind = "error"] ELSE r

\* the tool call returns res, through the try block of unifi()
Finish(tl, v, doc, res) ==
    /\ tool' = [tl EXCEPT !.pc = "done", !.got = v, !.doc = doc,
                          !.result = ToolCatch(res)]
    /\ UNCHANGED <<net, calls, task>>
    /\ last' = IdleTask

\* the handler awaits request() for rq: _make_request runs, as the one call
\* of the tool's task, up to its first suspension
Send(tl, step, rq) ==
    /\ Start(1)
    /\ tool' = [tl EXCEPT !.pc = "await", !.step = step, !.sent = Append(@, rq),
                          !.got = NoVal, !.doc = NoDoc]
    /\ EnsureAuthenticated(1, NewCall("request", 1), net)

\* unifi_service.py lines 62-75 and the service's execute_action: the
\* handler runs up to its first await; get_user_info asks nothing of the
\* client and its own except block makes an error result of any failure
Dispatch(tl) ==
    CASE tl.route = "unknown" -> Finish(tl, NoVal, NoDoc, Err("unknown_action"))
      [] tl.route = "auth" ->
            \E ok \in BOOLEAN :
                Finish(tl, NoVal, NoDoc, IF ok THEN Ok(FALSE) ELSE Err("user_info"))
      [] OTHER -> Send(tl, FirstStep(tl.action), FirstRequest(tl.action, tl.mac))

\* the error result for an action string that is no value of UnifiAction,
\* server.py lines 183-190
InvalidAction == [Err("invalid_action") EXCEPT !.names = UnifiAction]

\* the ValidationError of UnifiParams(...): its message gives the action
\* (params.py lines 128, 133, 138), that of `limit` does not (line 103)
Invalid(a, why) ==
    [Result("raised", "validation") EXCEPT
        !.names = IF why = "limit" THEN {} ELSE {a}]

\* ToolCall with the parameters validated only after the handler has run
ToolCall_ValidateLate(i) ==
    /\ tool.pc = "idle"
    /\ UNCHANGED <<session, csrf_token, is_authenticated, is_udm_pro, jar, created,
                   closes, norm, handler>>
    /\ ev' = NoEv
    /\ LET tl == [IdleTool EXCEPT !.action = i.action, !.mac = i.mac,
                                  !.text = i.text, !.limit = i.limit] IN
       IF i.action \notin UnifiAction
       THEN Finish(tl, NoVal, NoDoc, InvalidAction)
       ELSE Dispatch([tl EXCEPT !.route = Route(i.action)])

\* unifi(action, ...), server.py lines 178-215: the action string is
\* parsed, the parameters are validated, and the coordinator routes the call
\* to a handler, which runs up to its first await
ToolCall(i) ==
    /\ tool.pc = "idle"
    /\ UNCHANGED <<session, csrf_token, is_authenticated, is_udm_pro, jar, created,
                   closes, norm, handler>>
    /\ ev' = NoEv
    /\ LET tl == [IdleTool EXCEPT !.action = i.action, !.mac = i.mac,
                                  !.text = i.text, !.limit = i.limit]
           why == ValidationError(i.action, i.mac, i.text, i.limit)
       IN  IF i.action \notin UnifiAction
           THEN Finish(tl, NoVal, NoDoc, InvalidAction)
           ELSE IF why # ""
           THEN Finish(tl, NoVal, NoDoc, Invalid(i.action, why))
           ELSE Dispatch([tl EXCEPT !.route = Route(i.action)])

\* a command handler (restart_device, ..., forget_client) or the second half
\* of set_client_name and set_client_note, after its request returned v
AfterCommand(tl, v, doc) ==
    IF validate_response(v) # ""
    THEN Finish(tl, v, doc, Err(validate_response(v)))
    ELSE Finish(tl, v, doc, Ok(TRUE))

\* _get_devices and _get_clients after the listing returned v
AfterListing(tl, v, doc) ==
    IF check_list_response(v) # ""
    THEN Finish(tl, v, doc, Err(check_list_response(v)))
    ELSE Finish(tl, v, doc, Ok(TRUE))

\* AfterDevices with the MACs of the devices compared as the controller
\* wrote them
AfterDevices_RawCompare(tl, v, doc) ==
    IF check_list_response(v) # ""
    THEN Finish(tl, v, doc, Err(check_list_response(v)))
    ELSE LET hits == {i \in 1..Len(v.items) : v.items[i].mac = normalize_mac(tl.mac)}
             pos == IF hits = {} THEN 0 ELSE CHOOSE i \in hits : \A j \in hits : i <= j
         IN  IF pos = 0
             THEN Finish(tl, v, doc, [Err("not_found") EXCEPT !.mac = tl.mac])
             ELSE Finish(tl, v, doc, [Ok(FALSE) EXCEPT !.entry = v.items[pos],
                                                       !.pos = pos])

\* _get_device_by_mac, device_service.py lines 101-125, after the listing
\* returned v
AfterDevices(tl, v, doc) ==
    IF check_list_response(v) # ""
    THEN Finish(tl, v, doc, Err(check_list_response(v)))
    ELSE LET pos == FirstMatch(v.items, normalize_mac(tl.mac)) IN
         IF pos = 0
         THEN Finish(tl, v, doc, [Err("not_found") EXCEPT !.mac = tl.mac])
         ELSE Finish(tl, v, doc, [Ok(FALSE) EXCEPT !.entry = v.items[pos],
                                                   !.pos = pos])

\* AfterUsers without the `if not client_id` check
AfterUsers_NoCheck(tl, v, doc) ==
    LET mac == normalize_mac(tl.mac)
        pos == IF v.t = "list" THEN FirstMatch(v.items, mac) ELSE 0
        client_id == IF pos = 0 THEN 0 ELSE ClientId(v.items[pos])
    IN  IF v.t # "list" /\ v.t = "dict" /\ v.err
        THEN Finish(tl, v, doc, Err("request"))
        ELSE Send([tl EXCEPT !.target = IF pos = 0 THEN NoEntry ELSE v.items[pos]],
                  "write", Req("POST", "/upd/user", "", NoMac, client_id))

\* _set_client_name and _set_client_note, client_service.py lines 248-274
\* and 309-335, after the user listing returned v
AfterUsers(tl, v, doc) ==
    LET mac == normalize_mac(tl.mac)
        pos == IF v.t = "list" THEN FirstMatch(v.items, mac) ELSE 0
        client_id == IF pos = 0 THEN 0 ELSE ClientId(v.items[pos])
    IN  IF v.t # "list" /\ v.t = "dict" /\ v.err
        THEN Finish(tl, v, doc, Err("request"))
        ELSE IF client_id = 0
        THEN Finish(tl, v, doc, [Err("not_found") EXCEPT !.mac = mac])
        ELSE Send([tl EXCEPT !.target = v.items[pos]],
                  "write", Req("POST", "/upd/user", "", NoMac, client_id))

\* a handler of the network and monitoring services after its request
\* returned v: an error payload becomes an error result, anything else is
\* formatted, and a failure of that is caught and becomes an error result
AfterRead(tl, v, doc) ==
    IF v.t = "dict" /\ v.err
    THEN Finish(tl, v, doc, Err("request"))
    ELSE \E ok \in BOOLEAN :
            Finish(tl, v, doc, IF ok THEN Ok(FALSE) ELSE Err("format"))

\* the handler goes on with the value v its request returned
Resume(tl, v, doc) ==
    CASE tl.step = "listing" -> AfterListing(tl, v, doc)
      [] tl.step = "by_mac" -> AfterDevices(tl, v, doc)
      [] tl.step = "users" -> AfterUsers(tl, v, doc)
      [] tl.step \in {"cmd", "write"} -> AfterCommand(tl, v, doc)
      [] OTHER -> AfterRead(tl, v, doc)

\* request() has returned or raised and the handler that awaited it goes
\* on: doc is the JSON document of the 200 response, if that is what
\* request() returns the content of
HandlerResume(doc) ==
    /\ tool.pc = "await"
    /\ last.pc = "done" /\ last.op = "request"
    /\ UNCHANGED <<session, csrf_token, is_authenticated, is_udm_pro, jar, created,
                   closes, norm, handler>>
    /\ ev' = NoEv
    /\ CASE last.res.kind = "raised" ->
               /\ doc = NoDoc
               /\ Finish(tool, NoVal, NoDoc, HandlerCatch)
         [] last.res.kind = "error" ->
               /\ doc = NoDoc
               /\ Resume(tool, ErrVal, NoDoc)
         [] OTHER ->
               /\ tool.step = "read" \/ Shape(doc) = last.res.body
               /\ Resume(tool, IF tool.step = "read" THEN OtherVal ELSE Unwrap(doc), doc)

\* the client after the server's cleanup(): disconnect() has returned
Disconnected ==
    /\ session = None
    /\ created = 1
    /\ is_authenticated = FALSE
    /\ csrf_token = None
    /\ jar = CookieAbsent

\* the tool is called on the client the server holds
InitDispatch ==
    /\ is_udm_pro \in BOOLEAN
    /\ Initialized \/ Disconnected
    /\ closes = [s \in 1..MaxSessions |-> IF s = 1 /\ session = None THEN 1 ELSE 0]
    /\ net = {}
    /\ calls = 0
    /\ task = [t \in Tasks |-> IdleTask]
    /\ last = IdleTask
    /\ ev = NoEv
    /\ tool = IdleTool
    /\ norm = NoNorm
    /\ handler = NoRun

\* the documents the response that request() just returned the content of
\* can be; NoDoc if it returned an error payload or raised
ReplyDocs == IF last.res.kind = "data" THEN DocsFor(tool.step) ELSE {NoDoc}

NextDispatch ==
    \/ \E i \in ToolInputs : ToolCall(i)
    \/ \E a \in Answers : a.body = "env" /\ LoginResponse(1, a.out, a.cookie)
    \/ \E a \in Answers : a.cookie = CookieAbsent /\ RequestResponse(1, a.out, a.body)
    \/ \E a \in Answers : a.cookie = CookieAbsent /\ RetryResponse(1, a.out, a.body)
    \/ \E doc \in ReplyDocs : HandlerResume(doc)

SpecDispatch == InitDispatch /\ [][NextDispatch]_vars

\* ---- normalize_mac ----

InitMac ==
    /\ is_udm_pro = FALSE
    /\ Fresh
    /\ closes = [s \in 1..MaxSessions |-> 0]
    /\ net = {}
    /\ calls = 0
    /\ task = [t \in Tasks |-> IdleTask]
    /\ last = IdleTask
    /\ ev = NoEv
    /\ tool = IdleTool
    /\ norm \in {[inp |-> m, out |-> m, n |-> 0] : m \in MacStrings}
    /\ handler = NoRun

\* normalize_mac is applied to the string, and then to what it returned
Normalize ==
    /\ norm.n < 2
    /\ norm' = [norm EXCEPT !.out = normalize_mac(norm.out), !.n = @ + 1]
    /\ UNCHANGED <<session, csrf_token, is_authenticated, is_udm_pro, jar, created,
                   closes, net, calls, task, last, ev, tool, handler>>

NextMac == Normalize

SpecMac == InitMac /\ [][NextMac]_vars

\* ---- service layer: per-action defaults ----

\* the client and the tool while a handler is looked at on its own
Aside ==
    /\ is_udm_pro \in BOOLEAN
    /\ Fresh
    /\ closes = [s \in 1..MaxSessions |-> 0]
    /\ net = {}
    /\ calls = 0
    /\ task = [t \in Tasks |-> IdleTask]
    /\ last = IdleTask
    /\ ev = NoEv
    /\ tool = IdleTool
    /\ norm = NoNorm

aside == <<session, csrf_token, is_authenticated, is_udm_pro, jar, created,
           closes, net, calls, task, last, ev, tool, norm>>

\* the actions get_action_defaults has a default for, and the field it is for
DefaultedActions ==
    {"get_clients", "get_alarms", "get_dpi_stats", "authorize_guest",
     "get_events", "get_rogue_aps", "get_speedtest_results", "get_ips_events"}
DefaultedField(a) ==
    CASE a = "get_clients" -> "connected_only"
      [] a = "get_alarms" -> "active_only"
      [] a = "get_dpi_stats" -> "by_filter"
      [] a = "authorize_guest" -> "minutes"
      [] OTHER -> "limit"

\* UnifiParams.get_action_defaults, params.py lines 157-172
get_action_defaults(a) ==
    CASE a = "get_clients" -> BoolArg(TRUE)
      [] a = "get_alarms" -> BoolArg(TRUE)
      [] a = "get_dpi_stats" -> StrArg("by_app")
      [] a = "authorize_guest" -> IntArg(480)
      [] a = "get_events" -> IntArg(100)
      [] a = "get_rogue_aps" -> IntArg(20)
      [] a = "get_speedtest_results" -> IntArg(20)
      [] a = "get_ips_events" -> IntArg(50)
      [] OTHER -> NoArg

\* what a caller passes for that field: nothing, or a value, valid or not
ArgInputs(a) ==
    CASE DefaultedField(a) \in {"connected_only", "active_only"} ->
            {NoArg, BoolArg(TRUE), BoolArg(FALSE)}
      [] DefaultedField(a) = "by_filter" ->
            {NoArg} \cup {StrArg(x) : x \in {"by_app", "by_cat", "", "by_host"}}
      [] DefaultedField(a) = "minutes" ->
            {NoArg} \cup {IntArg(x) : x \in {-1, 0, 1, 480, 481}}
      [] OTHER ->
            {NoArg} \cup {IntArg(x) : x \in {-1, 0, 1, 19, 20, 21, 49, 50, 51, 99, 100, 101}}

\* the field validators of UnifiParams, params.py lines 98-120
FieldError(f, x) ==
    /\ x.given
    /\ \/ f \in {"limit", "minutes"} /\ x.n <= 0
       \/ f = "by_filter" /\ x.s \notin {"by_app", "by_cat"}

\* UsedValue with `or` for the boolean fields as well
UsedValue_OrEverywhere(a, x) ==
    CASE a = "get_rogue_aps" -> IntArg(Min(Or(x, get_action_defaults(a)).n, 50))
      [] OTHER -> Or(x, get_action_defaults(a))

\* the value a handler goes on with: client_service.py line 61,
\* monitoring_service.py lines 108, 163, 217, 267-270, 424, 479, 543
UsedValue(a, x) ==
    CASE a \in {"get_clients", "get_alarms"} -> IfGiven(x, get_action_defaults(a))
      [] a = "get_rogue_aps" -> IntArg(Min(Or(x, get_action_defaults(a)).n, 50))
      [] OTHER -> Or(x, get_action_defaults(a))

InitDefaults ==
    /\ Aside
    /\ handler \in {[pc |-> "call", action |-> a, arg |-> x, used |-> NoArg] :
                       a \in DefaultedActions, x \in UNION {ArgInputs(b) : b \in DefaultedActions}}
    /\ handler.arg \in ArgInputs(handler.action)

\* UnifiParams(...), server.py lines 193-207: the field validators run
Construct ==
    /\ handler.pc = "call"
    /\ handler' = [handler EXCEPT !.pc =
                      IF FieldError(DefaultedField(handler.action), handler.arg)
                      THEN "rejected" ELSE "params"]
    /\ UNCHANGED aside

\* the handler resolves the value it goes on with
ResolveDefault ==
    /\ handler.pc = "params"
    /\ handler' = [handler EXCEPT !.pc = "resolved",
                                   !.used = UsedValue(handler.action, handler.arg)]
    /\ UNCHANGED aside

NextDefaults == Construct \/ ResolveDefault

SpecDefaults == InitDefaults /\ [][NextDefaults]_vars

\* ---- service layer: the formatting loop of get_devices and get_clients ----

\* an element of the list the controller returned: an object that formats
\* well (a client of which may be offline), an object for which the
\* formatter raises (a "mac" that is null, a "type" that is a number), or
\* an element that is no object (a string, a number, null)
ItemKinds == {"ok", "offline", "malformed", "not_object"}
ItemLists == UNION {[1..n -> ItemKinds] : n \in 0..MaxList}

\* what the handler appends for item i: the formatted summary, or the
\* stand-in with these keys
Summary(i) == [item |-> i, kind |-> "summary", keys |-> {}]
StandIn(i, keys) == [item |-> i, kind |-> "standin", keys |-> keys]

\* the loop over the list from item i on, device_service.py lines 69-78 and
\* client_service.py lines 73-88: <<TRUE, entries>> when it comes to its
\* end, <<FALSE, ...>> when an exception leaves it.  The except clause of an
\* item calls .get() on the item, which raises again for one that is no
\* object.
RECURSIVE FormatFrom(_, _, _, _, _)
FormatFrom(a, connected_only, items, i, acc) ==
    IF i > Len(items) THEN <<TRUE, acc>>
    ELSE CASE items[i] = "not_object" -> <<FALSE, acc>>
           [] items[i] = "malformed" ->
                 FormatFrom(a, connected_only, items, i + 1,
                            Append(acc, StandIn(i, IF a = "get_devices"
                                                   THEN {"name", "error"}
                                                   ELSE {"name", "mac", "error"})))
           [] items[i] = "offline" /\ a = "get_clients" /\ connected_only ->
                 FormatFrom(a, connected_only, items, i + 1, acc)
           [] OTHER ->
                 FormatFrom(a, connected_only, items, i + 1, Append(acc, Summary(i)))

InitItems ==
    /\ Aside
    /\ handler \in {[pc |-> "listed", action |-> a, connected_only |-> c,
                       items |-> l, kind |-> "none", entries |-> <<>>] :
                       a \in {"get_devices", "get_clients"}, c \in BOOLEAN,
                       l \in ItemLists}

\* _get_devices and _get_clients from the check of the list to the return:
\* the loop, then the text summary (formatters.py lines 420-450, which
\* tolerates what the loop tolerates), then the success result; the outer
\* except makes an error result of an exception
FormatItems ==
    /\ handler.pc = "listed"
    /\ LET r == FormatFrom(handler.action, handler.connected_only,
                           handler.items, 1, <<>>)
       IN  handler' = [handler EXCEPT !.pc = "done",
                          !.kind = IF r[1] THEN "ok" ELSE "error",
                          !.entries = IF r[1] THEN r[2] ELSE <<>>]
    /\ UNCHANGED aside

NextItems == FormatItems

SpecItems == InitItems /\ [][NextItems]_vars

\* ---- service layer: authorize_guest ----

\* what a caller passes as minutes, up_bandwidth, down_bandwidth and quota
GuestInts(top) == {NoArg} \cup {IntArg(x) : x \in -1..top}
GuestInputs ==
    [minutes : GuestInts(1), up : GuestInts(1), down : GuestInts(1),
     quota : GuestInts(2)]

\* the data of the command: minutes, and the optional keys up, down and
\* bytes, NoArg for a key that is not in the dict
NoData == [minutes |-> NoArg, up |-> NoArg, down |-> NoArg, bytes |-> NoArg]

\* GuestData with the quota converted to kilobytes
GuestData_KB(minutes, up, down, quota) ==
    [minutes |-> minutes, up |-> up, down |-> down,
     bytes |-> IF quota.given THEN IntArg(quota.n * 1024) ELSE NoArg]

\* _authorize_guest, monitoring_service.py lines 435-446
GuestData(minutes, up, down, quota) ==
    [minutes |-> minutes, up |-> up, down |-> down,
     bytes |-> IF quota.given THEN IntArg(quota.n * 1024 * 1024) ELSE NoArg]

InitGuest ==
    /\ Aside
    /\ handler \in {[pc |-> "call", args |-> g, data |-> NoData] : g \in GuestInputs}

\* UnifiParams(...): validate_non_negative and validate_minutes_positive,
\* params.py lines 90-112
ConstructGuest ==
    /\ handler.pc = "call"
    /\ LET g == handler.args IN
       handler' = [handler EXCEPT !.pc =
           IF \/ g.minutes.given /\ g.minutes.n <= 0
              \/ \E v \in {g.up, g.down, g.quota} : v.given /\ v.n < 0
           THEN "rejected" ELSE "params"]
    /\ UNCHANGED aside

\* _authorize_guest, monitoring_service.py lines 424-448, up to its request
AuthorizeGuest ==
    /\ handler.pc = "params"
    /\ LET g == handler.args
           minutes == Or(g.minutes, get_action_defaults("authorize_guest"))
       IN  IF minutes.n <= 0
           THEN handler' = [handler EXCEPT !.pc = "refused"]
           ELSE IF \E v \in {g.up, g.down, g.quota} : v.given /\ v.n < 0
           THEN handler' = [handler EXCEPT !.pc = "refused"]
           ELSE handler' = [handler EXCEPT !.pc = "sent",
                               !.data = GuestData(minutes, g.up, g.down, g.quota)]
    /\ UNCHANGED aside

NextGuest == ConstructGuest \/ AuthorizeGuest

SpecGuest == InitGuest /\ [][NextGuest]_vars

\* ---- service layer: site_name ----

\* NO_SITE_ACTIONS, enums.py lines 121-125
NO_SITE_ACTIONS == {"get_sites", "get_controller_status", "get_user_info"}

\* the actions dispatched here, the site names a caller passes, and what
\* request() returns to the handler: a list, a dict, an error payload, or
\* an exception
SiteActions == NO_SITE_ACTIONS \cup {"get_devices", "get_events"}
SiteNames == {"default", "branch", ""}
Replies == {"list", "dict", "error", "raised"}

\* get_action_defaults, params.py lines 174-176, as the handlers read it
\* (defaults.get('site_name', 'default'))
ResolvedSite(a, site_name) ==
    IF a \notin NO_SITE_ACTIONS /\ site_name # "" THEN site_name ELSE "default"

\* the endpoint a handler asks for, "" if it asks for nothing
Endpoint(a) ==
    CASE a = "get_sites" -> "/self/sites"
      [] a = "get_controller_status" -> "/status"
      [] a = "get_devices" -> "/stat/device"
      [] a = "get_events" -> "/stat/event"
      [] OTHER -> ""

\* RequestSite with the resolved site passed on by every handler
RequestSite_Always(a, site_name) == IF site_name = "" THEN "default" ELSE site_name

\* the site_name a handler passes to request(): "" by get_sites (client.py
\* line 204) and get_controller_status (monitoring_service.py line 75)
RequestSite(a, site_name) ==
    IF a \in {"get_sites", "get_controller_status"} THEN ""
    ELSE ResolvedSite(a, site_name)

\* _make_request(), lines 139-144, after controller_url
Url(site_name, endpoint) ==
    IF site_name = "" THEN api_base \o endpoint
    ELSE api_base \o "/s/" \o site_name \o endpoint

\* the URL a dispatch of a with the caller's site_name asks for
UrlOf(a, site_name) ==
    IF Endpoint(a) = "" THEN "" ELSE Url(RequestSite(a, site_name), Endpoint(a))

\* the result of the handler for what request() returned: get_sites,
\* get_devices and get_events need a list, get_controller_status calls
\* .get() on the value; get_user_info reads the access token only
ResultOf(a, reply) ==
    CASE a = "get_user_info" -> "user_info"
      [] reply = "raised" -> "error: exception"
      [] reply = "error" -> "error: request"
      [] a = "get_controller_status" ->
            IF reply = "dict" THEN "ok" ELSE "error: exception"
      [] OTHER -> IF reply = "list" THEN "ok" ELSE "error: format"

InitSite ==
    /\ Aside
    /\ handler \in {[pc |-> "call", action |-> a, sites |-> <<s1, s2>>,
                       reply |-> r, urls |-> <<"", "">>, results |-> <<"", "">>] :
                       a \in SiteActions, s1 \in SiteNames, s2 \in SiteNames,
                       r \in Replies}

\* two dispatches of the action that differ in site_name only, answered
\* alike by the controller
DispatchTwice ==
    /\ handler.pc = "call"
    /\ handler' = [handler EXCEPT
          !.pc = "done",
          !.urls = <<UrlOf(handler.action, handler.sites[1]),
                     UrlOf(handler.action, handler.sites[2])>>,
          !.results = <<ResultOf(handler.action, handler.reply),
                        ResultOf(handler.action, handler.reply)>>]
    /\ UNCHANGED aside

NextSite == DispatchTwice

SpecSite == InitSite /\ [][NextSite]_vars

\* ---- properties ----

\* a request() call has just returned or raised
RequestDone == last.pc = "done" /\ last.op = "request"

\* the HTTP exchanges of task t still awaiting their response
InFlight(t) == {m \in net : m.task = t}

\* C1: single retry on 401.  When the first response to request() is 401,
\* is_authenticated is false right after it is handled; while the
\* re-authentication is awaited the call has sent nothing but its first
\* request and has only the login in flight; and, the session being there
\* throughout, the finished call has sent exactly two HTTP requests with the
\* same arguments, has called authenticate() exactly once beyond the call
\* ensure_authenticated may have made, returns the data if the retry is 200
\* with a body that parses, and the status error if the retry is another
\* status.
C1_SingleRetry ==
    /\ (ev.kind = "request" /\ ev.out = 401) => ~is_authenticated
    /\ \A t \in Tasks :
          (task[t].pc = "login_wait" /\ task[t].ret = "reauth") =>
             /\ Len(task[t].sent) = 1
             /\ \A m \in InFlight(t) : m.kind = "login"
    /\ (RequestDone /\ last.got # <<>> /\ last.got[1] = 401 /\ ~last.noSess) =>
          /\ Len(last.sent) = 2
          /\ last.sent[1].req = last.req /\ last.sent[2].req = last.req
          /\ Len(last.got) = 2
          /\ CountOf(last.auths, "reauth") = 1
          /\ Len(last.auths) = IF last.authAtEntry THEN 1 ELSE 2
          /\ (last.got[2] = 200 /\ ev.body # "bad") =>
                last.res = Res("data", 200, ev.body, last.req)
          /\ last.got[2] \notin {200, Exc} =>
                last.res = Res("error", last.got[2], "", 0)

\* C1 witness: a call whose first response was 401 and whose retry succeeded
C1_Witness ==
    /\ RequestDone
    /\ last.got = <<401, 200>>
    /\ last.res.kind = "data"

\* C2: request() never raises: whatever the client's state and whatever the
\* controller and the transport do, the call returns a value
C2_NeverRaises == RequestDone => last.res.kind # "raised"

\* C3: is_authenticated = true implies that the HTTP session is not None
C3_SessionInvariant == is_authenticated => session # None

\* C4: no two login requests are in flight at the same time
C4_OneLoginInFlight == Cardinality({m \in net : m.kind = "login"}) <= 1

\* C4 as amended: one call has at most one HTTP exchange in flight, so at
\* most one login and never a login beside a request of its own; a call that
\* has returned has none.  Logins overlap only between different calls.
C4_OneLoginPerCall ==
    \A t \in Tasks :
        /\ Cardinality(InFlight(t)) <= 1
        /\ task[t].pc = "idle" => InFlight(t) = {}
        /\ \A m \in InFlight(t) : m.kind = "login" <=> task[t].pc = "login_wait"

\* C4 witness: the logins of two calls overlap
C4_Witness == Cardinality({m \in net : m.kind = "login"}) = 2

AllIdle == \A t \in Tasks : task[t].pc = "idle"

\* what request() returns for the response (out, body) to request q
Reported(out, body, q) ==
    CASE out = Exc -> ErrExc
      [] out = 200 /\ body = "bad" -> ErrExc
      [] out = 200 /\ body # "bad" -> Res("data", 200, body, q)
      [] OTHER -> Res("error", out, "", 0)

\* C5 (under SpecRace): once every racing request() has returned, the client
\* is as one accepted login leaves it: is_authenticated is true, the session
\* is the open session the calls started with, the token is the one of the
\* session's TOKEN cookie (None if there is none to read); and no call
\* raises: each returns what the last response to its own request says.
C5_RaceHarmless ==
    /\ (AllIdle /\ calls > 0) =>
          /\ is_authenticated
          /\ session = 1 /\ closes[1] = 0
          /\ csrf_token = IF is_udm_pro /\ jar >= None THEN jar ELSE None
    /\ RequestDone =>
          /\ ev.kind \in {"request", "retry"}
          /\ ev.task = last.req
          /\ last.res = Reported(ev.out, ev.body, last.req)

\* C5 witness: the second of two overlapping calls returns its data last,
\* both having called authenticate()
C5_Witness ==
    /\ AllIdle /\ RequestDone
    /\ last.req = 2 /\ ~last.authAtEntry
    /\ last.res.kind = "data"

\* C6: a request() made after connect() and disconnect() logs in afresh over
\* a live session and then sends its HTTP request
C6_FreshAuthAfterDisconnect ==
    (RequestDone /\ created > 0 /\ last.sessAtEntry = None) =>
        /\ last.res.kind # "raised"
        /\ last.auths # <<>>
        /\ last.sent # <<>>

DisconnectReturned == last.pc = "done" /\ last.op = "disconnect"

C7_Step ==
    /\ DisconnectReturned' =>
          /\ session' = None /\ ~is_authenticated' /\ csrf_token' = None
          /\ last'.res.kind = "returned"
          /\ last'.closedHere <=> last'.sessAtEntry # None
          /\ closes' = closes
    /\ (DisconnectReturned' /\ last'.sessAtEntry = None
          /\ ~is_authenticated /\ csrf_token = None) =>
          UNCHANGED <<session, csrf_token, is_authenticated, jar, created, closes, net>>
    /\ \A t \in Tasks :
          (task[t].pc = "idle" /\ task'[t].op = "disconnect" /\ task'[t].pc # "idle") =>
             /\ session # None /\ task'[t].sessAtEntry = session
             /\ closes' = [closes EXCEPT ![session] = @ + 1]
    /\ closes' # closes =>
          \E t \in Tasks : task[t].pc = "idle" /\ task'[t].pc = "close_wait"

\* C7: when disconnect() returns, session is None, is_authenticated is false
\* and the token is None, and it has not failed; the call calls aclose()
\* exactly once on the session it found, when it starts, and never
\* otherwise; a disconnect() on a client already disconnected changes no
\* field of the client and closes nothing.
C7_Disconnect == [][C7_Step]_vars

\* C7 witness: a second disconnect() returns, after one that closed the
\* session
C7_Witness ==
    /\ DisconnectReturned
    /\ last.sessAtEntry = None /\ ~last.closedHere
    /\ created = 1 /\ closes[1] = 1

\* C8: when the first response is a status other than 200 and 401, or the
\* HTTP call raises, the call has sent exactly one HTTP request, has called
\* authenticate() only as ensure_authenticated had to (once if the client
\* was not authenticated on entry, else never), and returns the error
\* payload of that status, or of the exception
C8_NoRetryOnOtherFailure ==
    (RequestDone /\ last.got # <<>> /\ last.got[1] \notin {200, 401}) =>
        /\ Len(last.sent) = 1 /\ Len(last.got) = 1
        /\ last.auths = IF last.authAtEntry THEN <<>> ELSE <<"ensure">>
        /\ last.res = IF last.got[1] = Exc THEN ErrExc
                      ELSE Res("error", last.got[1], "", 0)

\* C8 witness: a call answered 500 has returned
C8_Witness ==
    /\ RequestDone
    /\ last.got = <<500>>
    /\ last.res = Res("error", 500, "", 0)

\* a login response with a status other than 200 was just handled
LoginRejected == ev.kind = "login" /\ ev.out \notin {200, Exc}

\* C9: after a login response with a status other than 200, authenticate()
\* returns false and is_authenticated is false
C9_RejectedLoginUnauthenticated == LoginRejected => (~ev.ok /\ ~is_authenticated)

\* C9 as amended: after a login response with a status other than 200,
\* authenticate() returns false and has assigned neither is_authenticated
\* nor the token: both are as they were when the response arrived
C9_RejectedLoginChangesNothing ==
    [][LoginRejected' =>
         /\ ~ev'.ok
         /\ is_authenticated' = is_authenticated
         /\ csrf_token' = csrf_token
         /\ (last'.pc = "done" /\ last'.op = "authenticate") => last'.res.kind = "false"]_vars

\* C9 witness: a second connect() whose login is rejected returns with
\* is_authenticated still true
C9_Witness ==
    /\ LoginRejected
    /\ last.pc = "done" /\ last.op = "connect" /\ last.authAtEntry
    /\ is_authenticated

\* C10: a request() call calls authenticate() from ensure_authenticated
\* once if is_authenticated was false on entry and never if it was true,
\* and sends nothing before that login has returned; when that login
\* returns false the call goes on to send its HTTP request (it ends there
\* only if the session is gone), and an error it returns without a missing
\* session is the one its own last response says.
C10_EnsureThenSend ==
    /\ \A r \in {task[t] : t \in Tasks} \cup {last} :
          r.op = "request" =>
             /\ CountOf(r.auths, "ensure") = IF r.authAtEntry THEN 0 ELSE 1
             /\ (r.pc = "login_wait" /\ r.ret = "ensure") => r.sent = <<>>
             /\ r.sent # <<>> => (r.authAtEntry \/ r.auths[1] = "ensure")
    /\ (ev.kind = "login" /\ ~ev.ok /\ task[ev.task].ret = "ensure") =>
          /\ task[ev.task].pc = "req_wait"
          /\ Len(task[ev.task].sent) = 1
          /\ \E m \in InFlight(ev.task) : m.kind = "request" /\ m.req = task[ev.task].req
    /\ (ev.kind = "login" /\ ~ev.ok /\ RequestDone /\ last.ret = "ensure") =>
          session = None /\ last.noSess
    /\ (RequestDone /\ last.res.kind = "error" /\ ~last.noSess) =>
          /\ ev.kind \in {"request", "retry"}
          /\ last.res = Reported(ev.out, ev.body, last.req)

\* C10 witness: the login made by ensure_authenticated has failed and the
\* call has sent its request all the same
C10_Witness ==
    /\ ev.kind = "login" /\ ~ev.ok
    /\ task[ev.task].ret = "ensure" /\ task[ev.task].pc = "req_wait"
    /\ ~is_authenticated

\* no disconnect() has closed a session so far
NoDisconnect == \A s \in 1..MaxSessions : closes[s] = 0

\* C11: as long as no disconnect() has closed a session, the connect() calls
\* made so far, one after the other or overlapping, have created at most one
\* HTTP session: the call that found none created it and it is the client's
\* session, every call that found one left it in place and created none; and
\* every connect() call, running or returned, has called authenticate()
\* exactly once, and returns without failing.
C11_ConnectIdempotent ==
    /\ NoDisconnect =>
          /\ created <= 1
          /\ session = IF created = 1 THEN 1 ELSE None
          /\ \A r \in {task[t] : t \in Tasks} \cup {last} :
                r.op = "connect" =>
                   /\ created = 1
                   /\ r.sessAtEntry # None => session = r.sessAtEntry
    /\ \A r \in {task[t] : t \in Tasks} \cup {last} :
          r.op = "connect" =>
             /\ r.auths = <<"connect">>
             /\ r.pc = "done" => r.res.kind = "returned"

\* C11 witness: a connect() that found the session of an earlier connect()
\* still awaiting its login returns, and the client has its one session
C11_Witness ==
    /\ NoDisconnect /\ created = 1 /\ session = 1
    /\ last.pc = "done" /\ last.op = "connect" /\ last.sessAtEntry = 1
    /\ \E t \in Tasks : task[t].op = "connect" /\ task[t].pc = "login_wait"
                        /\ task[t].sessAtEntry = None

\* the arguments of the tool call fail the pre-flight checks: the action
\* string is no value of the enumeration, or the parameters are not valid
Rejected(tl) ==
    \/ tl.action \notin UnifiAction
    \/ ValidationError(tl.action, tl.mac, tl.text, tl.limit) # ""

\* C12 (under SpecDispatch): a tool call whose action string is not an enum
\* value, or whose parameters fail validation, returns in the step it is
\* made in, with an error result (for a bad action string one that lists
\* every value of the enumeration); it has handed no request to the client,
\* no HTTP exchange was started, and session, is_authenticated, csrf_token
\* and the cookie jar are as they were.
C12_PreflightRejection ==
    [][(tool'.pc # "idle" /\ Rejected(tool')) =>
          /\ tool.pc = "idle" /\ tool'.pc = "done"
          /\ tool'.result.kind = "error"
          /\ tool'.action \notin UnifiAction =>
                (tool'.result.why = "invalid_action" /\ tool'.result.names = UnifiAction)
          /\ tool'.sent = <<>>
          /\ UNCHANGED <<session, is_authenticated, csrf_token, jar, created, closes,
                         net, calls, task>>]_vars

\* C12 witness: restart_device without mac was rejected on a connected,
\* authenticated client
C12_Witness ==
    /\ tool.pc = "done" /\ tool.action = "restart_device" /\ tool.mac = NoMac
    /\ tool.result.kind = "error" /\ tool.result.why = "validation"
    /\ session # None /\ is_authenticated /\ net = {}

\* the five routing sets
RoutingSets ==
    {DEVICE_ACTIONS, CLIENT_ACTIONS, NETWORK_ACTIONS, MONITORING_ACTIONS, AUTH_ACTIONS}

\* the routing sets are pairwise disjoint and cover the enumeration, and the
\* call the coordinator has routed went to the one handler whose set holds
\* its action
RoutingPartition ==
    /\ \A A, B \in RoutingSets : A # B => A \cap B = {}
    /\ UNION RoutingSets = UnifiAction
    /\ tool.route # "none" =>
          /\ tool.route # "unknown"
          /\ Cardinality({A \in RoutingSets : tool.action \in A}) = 1
          /\ tool.action \in
                (CASE tool.route = "device" -> DEVICE_ACTIONS
                   [] tool.route = "client" -> CLIENT_ACTIONS
                   [] tool.route = "network" -> NETWORK_ACTIONS
                   [] tool.route = "monitoring" -> MONITORING_ACTIONS
                   [] OTHER -> AUTH_ACTIONS)

MacWrites ==
    {"restart_device", "locate_device", "reconnect_client",
     "block_client", "unblock_client", "forget_client"}

\* C14: whenever the controller answers one of the six commands with HTTP
\* 200 and an envelope whose meta.rc is not "ok", with or without a data
\* key, the result is an error result and not a success payload
C14_LogicalFailureSurfaced ==
    (/\ tool.pc = "done" /\ tool.action \in MacWrites
     /\ tool.doc # NoDoc /\ tool.doc.t = "dict" /\ tool.doc.rc = "error") =>
        /\ tool.result.kind = "error"
        /\ ~tool.result.success

\* the request that lists the users, and whether a request is the write
ListUsers == Req("GET", "/list/user", "", NoMac, 0)
IsWrite(rq) == rq.method = "POST" /\ rq.endpoint = "/upd/user"

\* C15 (under SpecDispatch): set_client_name and set_client_note ask for
\* the user listing first and send at most one write after it; a write was
\* sent only if the listing returned a list with an entry whose normalized
\* MAC is the normalized input MAC and that carries an identifier (_id or,
\* failing that, user_id), and it goes to that identifier; a call that ends
\* after the listing (error payload, no list, no matching entry, a match
\* without identifier, or request() raising) has sent no write and returns
\* an error result.
C15_WriteOnlyAfterMatch ==
    tool.action \in {"set_client_name", "set_client_note"} =>
        /\ Len(tool.sent) <= 2
        /\ tool.sent # <<>> => tool.sent[1] = ListUsers
        /\ \A i \in 1..Len(tool.sent) : IsWrite(tool.sent[i]) =>
              /\ i = 2
              /\ tool.target \in UserEntries
              /\ normalize_mac(tool.target.mac) = normalize_mac(tool.mac)
              /\ tool.target.id1 # 0 \/ tool.target.id2 # 0
              /\ tool.sent[i].id =
                    IF tool.target.id1 # 0 THEN tool.target.id1 ELSE tool.target.id2
        /\ (tool.pc = "done" /\ tool.step = "users") =>
              /\ tool.result.kind = "error"
              /\ Len(tool.sent) = 1
        /\ (tool.pc = "done" /\ tool.step = "users" /\ tool.got.t = "list"
              /\ \A i \in 1..Len(tool.got.items) :
                    normalize_mac(tool.got.items[i].mac) # normalize_mac(tool.mac)) =>
              tool.result.why = "not_found"

\* C15 witness: the write is on its way to the user_id of an entry that
\* has no _id and whose MAC is written otherwise than the input
C15_Witness ==
    /\ tool.action = "set_client_name" /\ tool.pc = "await" /\ tool.step = "write"
    /\ tool.mac = <<"A", "-", "a">> /\ tool.target = Entry(<<"a", ":", "A">>, 0, 2)
    /\ IsWrite(tool.sent[2]) /\ tool.sent[2].id = 2

\* C16 (under SpecDispatch): the tool call never raises: whenever it ends,
\* for whichever action, it returns a result (text and structured payload);
\* when request() raised or returned an error payload into a handler, and
\* when the pre-flight checks fail, that result is an error result.
C16_NeverRaises ==
    [][/\ tool'.pc = "done" => tool'.result.kind \in {"ok", "error"}
       /\ (tool'.pc = "done" /\ Rejected(tool')) => tool'.result.kind = "error"
       /\ (tool.pc = "await" /\ tool' # tool /\ last.res.kind \in {"raised", "error"}) =>
             /\ tool'.pc = "done"
             /\ tool'.result.kind = "error"]_vars

\* C16 witness: request() raised because the session is missing, and the
\* call returned an error result
C16_Witness ==
    /\ tool.pc = "done" /\ tool.action = "get_sites"
    /\ session = None
    /\ tool.result.kind = "error" /\ tool.result.why = "exception"

\* C17: the MAC a MAC-bearing write sends is normalize_mac of the input
\* MAC, for each of the six operations and every MAC the parameters accept
C17_WritesSendNormalizedMac ==
    \A i \in 1..Len(tool.sent) :
        tool.action \in MacWrites => tool.sent[i].mac = normalize_mac(tool.mac)

\* written alike: after trimming, the same length and at each position
\* separators of any of the three styles or the same letter in either case
Seps == {":", "-", "."}
SameWritten(s, t) ==
    LET a == Strip(s)
        b == Strip(t)
    IN  /\ Len(a) = Len(b)
        /\ \A i \in 1..Len(a) :
              \/ a[i] \in Seps /\ b[i] \in Seps
              \/ Lower(<<a[i]>>) = Lower(<<b[i]>>)

\* C18 (under SpecMac): what normalize_mac returns has no upper-case
\* letter, no '-' and no '.', and no surrounding whitespace; it is what
\* normalize_mac returns for every string written alike with other
\* separators, letter case or surrounding whitespace; and normalize_mac
\* applied to it returns it unchanged.
C18_NormalizeIdempotent ==
    /\ norm.n = 1 =>
          /\ \A i \in 1..Len(norm.out) : norm.out[i] \notin {"A", "-", "."}
          /\ norm.out # <<>> => (norm.out[1] # " " /\ norm.out[Len(norm.out)] # " ")
          /\ \A s \in MacStrings :
                SameWritten(s, norm.inp) => normalize_mac(s) = norm.out
    /\ norm.n = 2 => norm.out = normalize_mac(norm.inp)

\* C18 witness: an upper-case MAC with a dash and leading whitespace was
\* normalized twice
C18_Witness ==
    /\ norm.n = 2
    /\ norm.inp = <<" ", "A", "-">>
    /\ norm.out = <<"a", ":">>

\* get_device_by_mac has returned after the listing gave a list
ByMacDone ==
    tool.pc = "done" /\ tool.action = "get_device_by_mac" /\ tool.got.t = "list"

\* the positions of the listed devices whose normalized MAC is the
\* normalized input MAC
Matching ==
    {i \in 1..Len(tool.got.items) :
        normalize_mac(tool.got.items[i].mac) = normalize_mac(tool.mac)}

\* the result is the first matching device, or the not-found error result
\* that gives the MAC
FirstOrNotFound ==
    IF Matching # {}
    THEN /\ tool.result.kind = "ok"
         /\ tool.result.pos \in Matching
         /\ \A j \in Matching : tool.result.pos <= j
         /\ tool.result.entry = tool.got.items[tool.result.pos]
    ELSE /\ tool.result.kind = "error"
         /\ tool.result.why = "not_found"
         /\ tool.result.mac = tool.mac

\* C19: get_device_by_mac returns the first device in list order whose
\* normalized MAC is the normalized input MAC; when none matches it returns
\* an error result that says "not found" and names the MAC and the site
C19_NotFoundNamesSite ==
    ByMacDone => (FirstOrNotFound /\ (Matching = {} => tool.result.site))

\* C19 as amended (under SpecDispatch): get_device_by_mac returns the first
\* device in list order whose normalized MAC is the normalized input MAC;
\* when none matches it returns an error result, not an exception and not
\* an empty list, that says "not found" and names the MAC as the caller
\* wrote it; the message does not name the site
C19_NotFoundNamesMac ==
    ByMacDone => (FirstOrNotFound /\ (Matching = {} => ~tool.result.site))

\* C19 witness: the device was found in second place, its MAC written
\* otherwise than the input
C19_Witness ==
    /\ ByMacDone /\ tool.mac = <<"A", "-", "a">>
    /\ tool.result.kind = "ok" /\ tool.result.pos = 2
    /\ tool.result.entry.mac = <<"a", ":", "A">>

\* C20 (under SpecDispatch): with mac absent or empty (and the other
\* parameters valid), the construction of the parameters fails if and only
\* if the action is one of the twelve that require a MAC; the error then
\* names the action and nothing is asked of the client; for every other
\* action the construction succeeds and the call is routed.
C20_MacRequirement ==
    (/\ tool.pc # "idle" /\ tool.action \in UnifiAction
     /\ tool.mac \in {NoMac, <<>>}
     /\ tool.limit = NoLimit \/ tool.limit > 0) =>
        LET failed == tool.pc = "done" /\ tool.result.why = "validation" IN
        /\ failed <=>
              tool.action \in
                 {"get_device_by_mac", "restart_device", "locate_device",
                  "reconnect_client", "block_client", "unblock_client",
                  "forget_client", "set_client_name", "set_client_note",
                  "start_spectrum_scan", "get_spectrum_scan_state", "authorize_guest"}
        /\ failed => /\ tool.result.kind = "error"
                     /\ tool.result.names = {tool.action}
                     /\ tool.sent = <<>>
        /\ ~failed => tool.route # "none"

\* C20 witness: get_sites without mac was routed and awaits its request
C20_Witness ==
    /\ tool.action = "get_sites" /\ tool.mac = NoMac
    /\ tool.pc = "await" /\ tool.route = "network"

\* C24: the mode selects the login protocol and never changes: a legacy
\* client has api_base "/api" and posts form-encoded {username, password,
\* remember} to /api/login; a non-legacy client has api_base
\* "/proxy/network/api" and posts JSON {username, password} to
\* /api/auth/login
C24_ModeSelectsLogin ==
    /\ api_base = IF is_udm_pro THEN "/proxy/network/api" ELSE "/api"
    /\ \A m \in net : m.kind = "login" =>
          m.post = IF is_udm_pro
                   THEN [url |-> "/api/auth/login", enc |-> "json",
                         data |-> {"username", "password"}]
                   ELSE [url |-> "/api/login", enc |-> "form",
                         data |-> {"username", "password", "remember"}]

\* the step is one of a request() call: the call starts, or a response is
\* delivered to it
RequestStep ==
    \/ ev'.kind # "none" /\ task[ev'.task].op = "request"
    \/ /\ calls' # calls
       /\ \/ last'.op = "request"
          \/ \E t \in Tasks : task[t].pc = "idle" /\ task'[t].op = "request"

\* C25 (under Spec): no step of a request() call assigns the session or
\* closes one, whatever the responses, a failed retry included; so a
\* request() that returns when no disconnect() has closed a session leaves
\* the client with the session it found on entry.
C25_SessionKept ==
    [][/\ RequestStep => (session' = session /\ closes' = closes)
       /\ (last'.pc = "done" /\ last'.op = "request" /\ NoDisconnect') =>
             session' = last'.sessAtEntry]_vars

\* C25 witness: the first response and the retry were both 401 and the
\* session is the open one the call found
C25_Witness ==
    /\ last.pc = "done" /\ last.op = "request"
    /\ last.got = <<401, 401>>
    /\ session # None /\ session = last.sessAtEntry /\ NoDisconnect

\* C26 (under Spec): is_authenticated becomes true only in the step in
\* which authenticate() receives a login response with status 200, and
\* becomes false only in the step in which a disconnect() returns or
\* request() receives 401 as its first response; no other step changes it.
C26_AuthFlagChanges ==
    [][/\ (~is_authenticated /\ is_authenticated') =>
             (ev'.kind = "login" /\ ev'.out = 200)
       /\ (is_authenticated /\ ~is_authenticated') =>
             \/ ev'.kind = "request" /\ ev'.out = 401
             \/ last'.op = "disconnect" /\ last'.pc = "done"]_vars

\* C26 witness: the re-authentication after a 401 succeeded, the retry
\* failed with 500, and the flag is still true
C26_Witness ==
    /\ last.pc = "done" /\ last.op = "request"
    /\ last.got = <<401, 500>>
    /\ ev.kind = "retry" /\ is_authenticated

\* C27: in non-legacy mode every HTTP request that request() sends while
\* the client holds a security token carries, as X-CSRF-Token, the token
\* the client holds when the request is sent; the retry after a 401 carries
\* the token the re-authentication obtained
C27_RequestsCarryToken ==
    [][\A m \in net' \ net :
          (m.kind \in {"request", "retry"} /\ is_udm_pro /\ csrf_token' # None) =>
             m.hdr = csrf_token']_vars

\* the upstream calls of a request() call are within the bound
Bounded(r) ==
    r.op = "request" =>
        /\ Len(r.sent) <= 2
        /\ Len(r.auths) <= 2
        /\ CountOf(r.auths, "ensure") <= 1
        /\ CountOf(r.auths, "reauth") <= 1
        /\ Len(r.got) <= Len(r.sent)

\* C28 (under SpecLive, where every awaited HTTP call returns or times
\* out): a request() call sends at most two HTTP requests and calls
\* authenticate() at most twice, once from ensure_authenticated and once
\* after a 401, whatever the responses; and every request() call returns.
C28_BoundedAndTerminates ==
    /\ [](Bounded(last) /\ \A t \in Tasks : Bounded(task[t]))
    /\ \A t \in Tasks : (task[t].op = "request") ~> (task[t].pc = "idle")

\* C28 witness: a call that met 401 on every response has returned after
\* two requests and two authenticate() calls
C28_Witness ==
    /\ last.pc = "done" /\ last.op = "request"
    /\ last.got = <<401, 401>>
    /\ last.auths = <<"ensure", "reauth">>
    /\ Len(last.sent) = 2

\* C29 (under Spec): in legacy mode csrf_token is None in every state,
\* and no request that request() sent or has in flight carries an
\* X-CSRF-Token header.
C29_LegacyNoToken ==
    ~is_udm_pro =>
        /\ csrf_token = None
        /\ \A m \in net : m.hdr = None
        /\ \A i \in 1..Len(last.sent) : last.sent[i].hdr = None
        /\ \A t \in Tasks : \A i \in 1..Len(task[t].sent) : task[t].sent[i].hdr = None

\* C29 witness: a legacy client re-authenticated after a 401 and its retry
\* was answered 200
C29_Witness ==
    /\ ~is_udm_pro /\ is_authenticated
    /\ last.pc = "done" /\ last.op = "request"
    /\ last.got = <<401, 200>>
    /\ csrf_token = None /\ last.sent[2].hdr = None

\* the default the specification gives for each action
StatedDefault ==
    CASE handler.action = "get_clients" -> BoolArg(TRUE)
      [] handler.action = "get_alarms" -> BoolArg(TRUE)
      [] handler.action = "get_dpi_stats" -> StrArg("by_app")
      [] handler.action = "authorize_guest" -> IntArg(480)
      [] handler.action = "get_events" -> IntArg(100)
      [] handler.action \in {"get_rogue_aps", "get_speedtest_results"} -> IntArg(20)
      [] handler.action = "get_ips_events" -> IntArg(50)

\* the caller's value when one was given, the default when the field was
\* omitted
CallerOrDefault == IF handler.arg.given THEN handler.arg ELSE StatedDefault

\* C21: for every action with a default, the value the handler uses is the
\* caller's value when one was given (an explicit false included) and the
\* default only when the field was omitted
C21_ExplicitWins ==
    handler.pc = "resolved" => handler.used = CallerOrDefault

\* C21 as amended (under SpecDefaults): a default never overrides an
\* explicit value: the handler goes on with the caller's value when one was
\* given (an explicit false included) and with the default only when the
\* field was omitted; get_rogue_aps then caps that value at 50; and no call
\* that omits the field is rejected for it.
C21_ExplicitWinsCapped ==
    /\ handler.pc = "resolved" =>
          IF handler.action = "get_rogue_aps"
          THEN handler.used = IntArg(Min(CallerOrDefault.n, 50))
          ELSE handler.used = CallerOrDefault
    /\ handler.pc = "rejected" => handler.arg.given

\* C21 witness: get_clients was called with connected_only = false and the
\* handler goes on with false
C21_Witness ==
    /\ handler.pc = "resolved" /\ handler.action = "get_clients"
    /\ handler.arg = BoolArg(FALSE) /\ handler.used = BoolArg(FALSE)

\* C22: whatever the items of the fetched list, get_devices and
\* get_clients return a success result with one entry per listed item, an
\* item whose formatting fails (one that is no well-formed object included)
\* being replaced by a {name, mac, error} stand-in
C22_PerItemIsolation ==
    handler.pc = "done" =>
        /\ handler.kind = "ok"
        /\ Len(handler.entries) = Len(handler.items)
        /\ \A i \in 1..Len(handler.entries) :
              /\ handler.entries[i].item = i
              /\ handler.items[i] \in {"malformed", "not_object"} =>
                    /\ handler.entries[i].kind = "standin"
                    /\ handler.entries[i].keys = {"name", "mac", "error"}

\* an optional number is absent or at least lo
AbsentOrAtLeast(x, lo) == ~x.given \/ x.n >= lo

\* C23 (under SpecGuest): authorize_guest sends its request only when
\* minutes (480 if omitted) is > 0 and each of up_bandwidth, down_bandwidth
\* and quota is absent or >= 0, and always then; otherwise the call ends
\* with an error and nothing sent; the request forwards minutes, forwards up
\* and down as given, has bytes = quota * 1024 * 1024 when quota is given,
\* and has no key for an absent optional field.
C23_GuestRequest ==
    LET g == handler.args
        valid == /\ AbsentOrAtLeast(g.minutes, 1)
                 /\ AbsentOrAtLeast(g.up, 0)
                 /\ AbsentOrAtLeast(g.down, 0)
                 /\ AbsentOrAtLeast(g.quota, 0)
    IN  /\ handler.pc = "sent" =>
              /\ valid
              /\ handler.data.minutes = IF g.minutes.given THEN g.minutes ELSE IntArg(480)
              /\ handler.data.up = g.up
              /\ handler.data.down = g.down
              /\ handler.data.bytes =
                    IF g.quota.given THEN IntArg(g.quota.n * 1048576) ELSE NoArg
        /\ handler.pc \in {"rejected", "refused"} => (~valid /\ handler.data = NoData)
        /\ handler.pc # "sent" => handler.data = NoData

\* C23 witness: a quota of 2 MB went out as 2097152 bytes, with the
\* default minutes and no key for the bandwidths that were omitted
C23_Witness ==
    /\ handler.pc = "sent"
    /\ handler.args.quota = IntArg(2) /\ handler.data.bytes = IntArg(2097152)
    /\ ~handler.args.minutes.given /\ handler.data.minutes = IntArg(480)
    /\ ~handler.args.up.given /\ handler.data.up = NoArg

\* C30 (under SpecSite): for get_sites, get_controller_status and
\* get_user_info, two dispatches that differ in site_name only ask the
\* controller for the same URL, which is the API base path followed by the
\* endpoint with no /s/{site} segment (get_user_info asks for nothing), and
\* return the same result for the same response.
C30_NoSiteActions ==
    (handler.pc = "done"
        /\ handler.action \in {"get_sites", "get_controller_status", "get_user_info"}) =>
        /\ handler.urls[1] = handler.urls[2]
        /\ handler.results[1] = handler.results[2]
        /\ handler.urls[1] =
              LET base == IF is_udm_pro THEN "/proxy/network/api" ELSE "/api" IN
              CASE handler.action = "get_sites" -> base \o "/self/sites"
                [] handler.action = "get_controller_status" -> base \o "/status"
                [] OTHER -> ""

\* C30 witness: get_sites was dispatched for the sites "default" and
\* "branch" and asked for /self/sites both times
C30_Witness ==
    /\ handler.pc = "done" /\ handler.action = "get_sites"
    /\ handler.sites = <<"default", "branch">>
    /\ ~is_udm_pro /\ handler.urls = <<"/api/self/sites", "/api/self/sites">>
    /\ handler.results = <<"ok", "ok">>

====
